---- MODULE Spec2Model ----
(***************************************************************************)
(* tiny-grpo: the two GRPO training loops, train.py (one process per       *)
(* device, FSDP-sharded model, NCCL process group) and train_ds.py (one    *)
(* process), and the pure functions of rollout() and group_advantages().   *)
(*                                                                         *)
(* Spec        the step loop of main(), for both scripts                   *)
(* SpecReward  the answer extraction and grading at the end of rollout()   *)
(* SpecMask    the action_mask / attention_mask construction               *)
(* SpecAdv     group_advantages()                                          *)
(***************************************************************************)
EXTENDS Integers, Sequences, FiniteSets, TLC

\* ------------------------------------------------------------------ bounds
\* number of processes of the train.py process group ranges over 1..MaxWorkers
MaxWorkers == 2
\* a decoded completion has 0..MaxCompletionLen pieces
MaxCompletionLen == 5
\* an oracle answer has 0..MaxOracleLen characters
MaxOracleLen == 2
\* a generated sequence (prompt and completion) has 1..MaxSeqLen tokens
MaxSeqLen == 4
\* a group has 1..MaxGroupSize rollouts
MaxGroupSize == 3
\* number of prompts that pass the load-time filter ranges over 0..MaxPrompts
MaxPrompts == 4
\* rollouts_per_step ranges over 1..MaxRolloutsPerStep
MaxRolloutsPerStep == 2
\* train_batch_size ranges over 1..MaxTrainBatchSize
MaxTrainBatchSize == 2
\* epochs_per_step ranges over 1..MaxEpochs
MaxEpochs == 2
\* checkpoint_interval ranges over 1..MaxCheckpointInterval
MaxCheckpointInterval == 2

VARIABLES
    script,              \* "train" (train.py) or "train_ds" (train_ds.py)
    world,               \* number of processes (1 for train_ds.py)
    checkpoint_interval, \* main(): checkpoint_interval
    train_batch_size,    \* main(): train_batch_size
    rollouts_per_step,   \* main(): rollouts_per_step
    epochs_per_step,     \* main(): epochs_per_step
    pc,                  \* per process: position in main()
    prompt_iter,         \* per process: prompt batches prompt_loader has still to yield
    prompt_batch,        \* per process: the prompt batch of the current step
    pos,                 \* per process: 1-based index of the next (q, a) of zip(questions, answers)
    k,                   \* per process: loop variable k; -1 while it is unbound
    replay_buffer,       \* per process: ReplayBuffer.items
    step_epoch,          \* per process: loop variable step_epoch
    batches,             \* per process: mini-batches experience_sampler has still to yield
    exp,                 \* per process: the mini-batch being trained on (<<>>: none)
    loss,                \* per process: "none", "finite" or "nonfinite"
    params,              \* per process: version of model.parameters()
    opt_state,           \* per process: version of optimizer.state
    grad,                \* per process: "none", "computed"
    coll,                \* per process: collectives entered, [n |-> count, op |-> last one]
    io,                  \* per process: the side-effecting calls it has made
    saves,               \* per process: the save_checkpoint calls it has made
    group,               \* per process: "none", "initialized", "destroyed"
    experience,          \* per process: variable experience of main(), <<>> while unbound
    ref_params,          \* per process: version of reference_model.parameters()
    n_optimizer_steps,   \* per process: optimizer.step() calls made in the current step
    n_skipped,           \* per process: mini-batches skipped in the current step
    n_prompts,           \* len(prompts): number of prompts that passed the filter
    drawn,               \* per process: the prompts prompt_loader has yielded so far
    diag,                \* per process: what the non-finite-loss prints of the current
                         \* mini-batch reported (<<>>: nothing printed for it)
    completion,          \* SpecReward: decoded completion, a sequence of pieces
    oracle_answer,       \* SpecReward: the oracle string
    reward,              \* SpecReward: returns[i] in hundredths, -1 before grading
    sequence_ids,        \* SpecMask: one row of model.generate's output
    prompt_len,          \* SpecMask: input_ids.shape[1]
    action_mask,         \* SpecMask: rollout's action_mask row (<<>> before it is built)
    attention_mask,      \* SpecMask: main's attention_mask row
    returns,             \* SpecAdv: returns of one group, in hundredths
    advantages           \* SpecAdv: group_advantages(returns) (<<>> before it is computed)

loopVars ==
    <<script, world, checkpoint_interval, train_batch_size, rollouts_per_step,
      epochs_per_step, pc, prompt_iter, prompt_batch, pos, k, replay_buffer,
      step_epoch, batches, exp, loss, params, opt_state, grad, coll, io, saves,
      group, experience, diag, ref_params,
      n_optimizer_steps, n_skipped, n_prompts, drawn>>

rewardVars == <<completion, oracle_answer, reward>>

maskVars == <<sequence_ids, prompt_len, action_mask, attention_mask>>

advVars == <<returns, advantages>>

vars == <<loopVars, rewardVars, maskVars, advVars>>

\* ------------------------------------------------------- library semantics
Ranks == 0 .. world - 1

\* torch.utils.data.DataLoader(data, batch_size=size, shuffle=True,
\* drop_last=True): one pass yields a random permutation of the data cut into
\* batches of `size`, the incomplete last batch dropped.
Injective(s) == \A i, j \in DOMAIN s : i # j => s[i] # s[j]

Shuffles(n) == { s \in [1 .. n -> 1 .. n] : Injective(s) }

Chunks(s, size) ==
    [ i \in 1 .. (Len(s) \div size) |-> SubSeq(s, (i - 1) * size + 1, i * size) ]

\* ReplayBuffer (replay_buffer.py): append, clear, len, indexed read
ReplayBuffer_clear(items) == << >>

ReplayBuffer_append(items, e) == Append(items, e)

ReplayBuffer_len(items) == Len(items)

ReplayBuffer_getitem(items, i) == items[i]

\* join_experience_batch (replay_buffer.py): the rows of a mini-batch, in order
join_experience_batch(rows) == rows

\* A collective of the process group blocks until every process has entered
\* it.  A process can enter its next collective only when its previous one
\* has completed: every process has entered that one too, with the same op.
CanEnter(w) ==
    script = "train" =>
        \A v \in Ranks :
            /\ coll[v].n >= coll[w].n
            /\ coll[v].n = coll[w].n => coll[v].op = coll[w].op

Entered(w, op) ==
    IF script = "train"
    THEN [coll EXCEPT ![w] = [n |-> @.n + 1, op |-> op]]
    ELSE coll

\* ---------------------------------------------------------------- main()
\* train.py guards logging with dist.get_rank() == 0; train_ds.py logs always
IsLogger(w) == script = "train_ds" \/ w = 0

Logged(w, calls) ==
    IF IsLogger(w) THEN [io EXCEPT ![w] = @ \cup calls] ELSE io

\* the Experience assembled for one task: which step and task it belongs to,
\* and the policy version its action_log_probs were computed under
Experience(w, task) == [step |-> k[w], task |-> task, policy |-> params[w]]

\* The state when main() reaches its step loop.  The prompts that passed the
\* filter are 1 .. n.  Every process reads the same file and seeds its RNG
\* with the same seed (init_rng(seed)), so prompt_loader yields the same
\* batches in every process.
LoopInit ==
    /\ script \in {"train", "train_ds"}
    /\ world \in IF script = "train" THEN 1 .. MaxWorkers ELSE {1}
    /\ checkpoint_interval \in 1 .. MaxCheckpointInterval
    /\ train_batch_size \in 1 .. MaxTrainBatchSize
    /\ rollouts_per_step \in 1 .. MaxRolloutsPerStep
    /\ epochs_per_step \in 1 .. MaxEpochs
    /\ pc = [w \in Ranks |-> "loop"]
    /\ n_prompts \in 0 .. MaxPrompts
    /\ \E order \in Shuffles(n_prompts) :
          prompt_iter = [w \in Ranks |-> Chunks(order, rollouts_per_step)]
    /\ drawn = [w \in Ranks |-> {}]
    /\ prompt_batch = [w \in Ranks |-> << >>]
    /\ pos = [w \in Ranks |-> 1]
    /\ k = [w \in Ranks |-> -1]
    /\ replay_buffer = [w \in Ranks |-> << >>]
    /\ step_epoch = [w \in Ranks |-> 0]
    /\ batches = [w \in Ranks |-> << >>]
    /\ exp = [w \in Ranks |-> << >>]
    /\ loss = [w \in Ranks |-> "none"]
    /\ params = [w \in Ranks |-> 0]
    /\ opt_state = [w \in Ranks |-> 0]
    /\ grad = [w \in Ranks |-> "none"]
    /\ coll = [w \in Ranks |-> [n |-> 0, op |-> "none"]]
    /\ io = [w \in Ranks |-> IF IsLogger(w) THEN {"print"} ELSE {}]
    /\ saves = [w \in Ranks |-> << >>]
    /\ group = [w \in Ranks |-> IF script = "train" THEN "initialized" ELSE "none"]
    /\ experience = [w \in Ranks |-> << >>]
    /\ diag = [w \in Ranks |-> << >>]
    /\ ref_params = [w \in Ranks |-> 0]
    /\ n_optimizer_steps = [w \in Ranks |-> 0]
    /\ n_skipped = [w \in Ranks |-> 0]

LoopIdle ==
    /\ script = "none"
    /\ world = 0
    /\ checkpoint_interval = 0
    /\ train_batch_size = 0
    /\ rollouts_per_step = 0
    /\ epochs_per_step = 0
    /\ pc = << >>
    /\ prompt_iter = << >>
    /\ prompt_batch = << >>
    /\ pos = << >>
    /\ k = << >>
    /\ replay_buffer = << >>
    /\ step_epoch = << >>
    /\ batches = << >>
    /\ exp = << >>
    /\ loss = << >>
    /\ params = << >>
    /\ opt_state = << >>
    /\ grad = << >>
    /\ coll = << >>
    /\ io = << >>
    /\ saves = << >>
    /\ group = << >>
    /\ experience = << >>
    /\ diag = << >>
    /\ ref_params = << >>
    /\ n_prompts = 0
    /\ drawn = << >>
    /\ n_optimizer_steps = << >>
    /\ n_skipped = << >>

RewardIdle == completion = << >> /\ oracle_answer = << >> /\ reward = -1

MaskIdle ==
    sequence_ids = << >> /\ prompt_len = 0 /\ action_mask = << >> /\ attention_mask = << >>

AdvIdle == returns = << >> /\ advantages = << >>

Init == LoopInit /\ RewardIdle /\ MaskIdle /\ AdvIdle

\* the buffer kept from one step to the next: replay_buffer.clear() left out
BufferAtStepStartKept(items) == items

\* what replay_buffer holds when the rollouts of a step begin
BufferAtStepStart(items) == ReplayBuffer_clear(items)

\* the head of the step loop: the next prompt batch, or the end of the data
NextStep(w) ==
    /\ w \in Ranks
    /\ pc[w] = "loop"
    /\ prompt_iter[w] # << >>
    /\ k' = [k EXCEPT ![w] = @ + 1]
    /\ prompt_batch' = [prompt_batch EXCEPT ![w] = Head(prompt_iter[w])]
    /\ prompt_iter' = [prompt_iter EXCEPT ![w] = Tail(@)]
    /\ replay_buffer' = [replay_buffer EXCEPT ![w] = BufferAtStepStart(@)]
    /\ pos' = [pos EXCEPT ![w] = 1]
    /\ pc' = [pc EXCEPT ![w] = "collect"]
    /\ n_optimizer_steps' = [n_optimizer_steps EXCEPT ![w] = 0]
    /\ n_skipped' = [n_skipped EXCEPT ![w] = 0]
    /\ drawn' = [drawn EXCEPT ![w] = @ \cup { Head(prompt_iter[w])[i] :
                                              i \in DOMAIN Head(prompt_iter[w]) }]
    /\ UNCHANGED <<rewardVars, maskVars, advVars, ref_params, n_prompts,
                   experience, diag, script, world, checkpoint_interval,
                   train_batch_size, rollouts_per_step, epochs_per_step,
                   step_epoch, batches, exp, loss, params, opt_state, grad,
                   coll, io, saves, group>>

EndOfData(w) ==
    /\ w \in Ranks
    /\ pc[w] = "loop"
    /\ prompt_iter[w] = << >>
    /\ pc' = [pc EXCEPT ![w] = IF script = "train" THEN "final" ELSE "done"]
    /\ UNCHANGED <<rewardVars, maskVars, advVars, ref_params, n_prompts, drawn,
                   n_optimizer_steps, n_skipped, experience, diag, script,
                   world, checkpoint_interval, train_batch_size,
                   rollouts_per_step, epochs_per_step, prompt_iter,
                   prompt_batch, pos, k, replay_buffer, step_epoch, batches,
                   exp, loss, params, opt_state, grad, coll, io, saves, group>>

\* a rollout that trains the policy on what it generated
ParamsAfterRolloutTrained(p) == p + 1

\* the rollout loop runs under torch.no_grad() and calls neither backward()
\* nor optimizer.step(): the policy's parameters come out as they went in
ParamsAfterRollout(p) == p

\* the rollout loop left after its first task
LastTaskAlways(w, p) == TRUE

\* zip(questions, answers) is exhausted after the task at position p
LastTask(w, p) == p = Len(prompt_batch[w])

\* one iteration of the rollout loop: rollout(), the two sequences_log_probs,
\* the Experience appended; after the last task the step's returns are logged
\* and the step goes on to its epochs
Rollout(w) ==
    /\ w \in Ranks
    /\ pc[w] = "collect"
    /\ CanEnter(w)
    /\ coll' = Entered(w, "generate")
    /\ replay_buffer' =
          [replay_buffer EXCEPT
              ![w] = ReplayBuffer_append(@, Experience(w, prompt_batch[w][pos[w]]))]
    /\ IF LastTask(w, pos[w])
       THEN /\ io' = Logged(w, {"print", "wandb.log"})
            /\ pc' = [pc EXCEPT ![w] = "epoch"]
            /\ step_epoch' = [step_epoch EXCEPT ![w] = 0]
            /\ pos' = pos
       ELSE /\ io' = Logged(w, {"print"})
            /\ pos' = [pos EXCEPT ![w] = @ + 1]
            /\ UNCHANGED <<pc, step_epoch>>
    /\ params' = [params EXCEPT ![w] = ParamsAfterRollout(@)]
    /\ experience' = [experience EXCEPT ![w] = <<Experience(w, prompt_batch[w][pos[w]])>>]
    /\ UNCHANGED <<rewardVars, maskVars, advVars, ref_params, n_prompts, drawn,
                   n_optimizer_steps, n_skipped, diag, script, world,
                   checkpoint_interval, train_batch_size, rollouts_per_step,
                   epochs_per_step, prompt_iter, prompt_batch, k, batches, exp,
                   loss, opt_state, grad, saves, group>>

\* where the loops go after pass number e over experience_sampler: the next
\* pass, or the checkpoint when range(epochs_per_step) is exhausted
AfterEpoch(w, e) ==
    /\ step_epoch' = [step_epoch EXCEPT ![w] = e + 1]
    /\ pc' = [pc EXCEPT ![w] = IF e + 1 < epochs_per_step THEN "epoch" ELSE "ckpt"]

\* where the mini-batch loop goes after a mini-batch: the next one, or the
\* end of the pass when experience_sampler is exhausted
AfterBatch(w) ==
    IF batches[w] = << >>
    THEN AfterEpoch(w, step_epoch[w])
    ELSE /\ pc' = [pc EXCEPT ![w] = "batch"]
         /\ UNCHANGED step_epoch

\* experience_sampler with drop_last=False: the incomplete last mini-batch kept
MiniBatchesKeepLast(items, perm) ==
    LET rows == [i \in 1 .. Len(perm) |-> ReplayBuffer_getitem(items, perm[i])]
        n == (Len(rows) + train_batch_size - 1) \div train_batch_size
    IN  [i \in 1 .. n |->
            join_experience_batch(
                SubSeq(rows, (i - 1) * train_batch_size + 1,
                       IF i * train_batch_size < Len(rows)
                       THEN i * train_batch_size ELSE Len(rows)))]

\* the mini-batches of one pass over experience_sampler, for a shuffle perm
MiniBatches(items, perm) ==
    LET rows == [i \in 1 .. Len(perm) |-> ReplayBuffer_getitem(items, perm[i])]
        cut == Chunks(rows, train_batch_size)
    IN  [i \in 1 .. Len(cut) |-> join_experience_batch(cut[i])]

\* one pass of for step_epoch in range(epochs_per_step) begins: model.train(),
\* experience_sampler shuffles; a pass with no complete mini-batch ends at once
EpochStart(w) ==
    /\ w \in Ranks
    /\ pc[w] = "epoch"
    /\ \E perm \in Shuffles(ReplayBuffer_len(replay_buffer[w])) :
          LET mbs == MiniBatches(replay_buffer[w], perm)
          IN  IF mbs = << >>
              THEN /\ AfterEpoch(w, step_epoch[w])
                   /\ UNCHANGED batches
              ELSE /\ batches' = [batches EXCEPT ![w] = mbs]
                   /\ pc' = [pc EXCEPT ![w] = "batch"]
                   /\ UNCHANGED step_epoch
    /\ UNCHANGED <<rewardVars, maskVars, advVars, ref_params, n_prompts, drawn,
                   n_optimizer_steps, n_skipped, experience, diag, script,
                   world, checkpoint_interval, train_batch_size,
                   rollouts_per_step, epochs_per_step, prompt_iter,
                   prompt_batch, pos, k, replay_buffer, exp, loss, params,
                   opt_state, grad, coll, io, saves, group>>

\* the next mini-batch: optimizer.zero_grad(), the forward pass, the loss
Forward(w) ==
    /\ w \in Ranks
    /\ pc[w] = "batch"
    /\ CanEnter(w)
    /\ coll' = Entered(w, "forward")
    /\ exp' = [exp EXCEPT ![w] = Head(batches[w])]
    /\ batches' = [batches EXCEPT ![w] = Tail(@)]
    /\ grad' = [grad EXCEPT ![w] = "none"]
    /\ \E l \in {"finite", "nonfinite"} : loss' = [loss EXCEPT ![w] = l]
    /\ pc' = [pc EXCEPT ![w] = "loss"]
    /\ diag' = [diag EXCEPT ![w] = << >>]
    /\ UNCHANGED <<rewardVars, maskVars, advVars, ref_params, n_prompts, drawn,
                   n_optimizer_steps, n_skipped, experience, script, world,
                   checkpoint_interval, train_batch_size, rollouts_per_step,
                   epochs_per_step, prompt_iter, prompt_batch, pos, k,
                   replay_buffer, step_epoch, params, opt_state, io, saves,
                   group>>

\* the finite-loss check left out: every loss is backpropagated
SkipsUpdateNever(l) == FALSE

\* if not loss.isfinite(): ... continue
SkipsUpdate(l) == l = "nonfinite"

\* the advantages tensor of an Experience, named by the step and the task
\* whose group of returns it normalises
AdvantagesOf(e) == [step |-> e.step, task |-> e.task]

\* the advantages of a sequence of Experiences, stacked in order: those of a
\* collated mini-batch, or of a single Experience
StackedAdvantages(rows) == [i \in DOMAIN rows |-> AdvantagesOf(rows[i])]

\* the prints made for a non-finite loss: the loss, which is that of the
\* mini-batch exp, and advantages: train.py prints experience.advantages,
\* train_ds.py prints exp.advantages
Diagnostic(w) ==
    [loss_of |-> exp[w],
     advantages |-> IF script = "train"
                    THEN StackedAdvantages(experience[w])
                    ELSE StackedAdvantages(exp[w])]

SkipBatch(w) ==
    /\ w \in Ranks
    /\ pc[w] = "loss"
    /\ SkipsUpdate(loss[w])
    /\ io' = Logged(w, {"print"})
    /\ AfterBatch(w)
    /\ diag' = [diag EXCEPT ![w] = IF IsLogger(w) THEN <<Diagnostic(w)>> ELSE @]
    /\ n_skipped' = [n_skipped EXCEPT ![w] = @ + 1]
    /\ UNCHANGED <<rewardVars, maskVars, advVars, ref_params, n_prompts, drawn,
                   n_optimizer_steps, experience, script, world,
                   checkpoint_interval, train_batch_size, rollouts_per_step,
                   epochs_per_step, prompt_iter, prompt_batch, pos, k,
                   replay_buffer, batches, exp, loss, params, opt_state, grad,
                   coll, saves, group>>

\* loss.backward()
Backward(w) ==
    /\ w \in Ranks
    /\ pc[w] = "loss"
    /\ ~SkipsUpdate(loss[w])
    /\ CanEnter(w)
    /\ coll' = Entered(w, "backward")
    /\ grad' = [grad EXCEPT ![w] = "computed"]
    /\ pc' = [pc EXCEPT ![w] = "clip"]
    /\ UNCHANGED <<rewardVars, maskVars, advVars, ref_params, n_prompts, drawn,
                   n_optimizer_steps, n_skipped, experience, diag, script,
                   world, checkpoint_interval, train_batch_size,
                   rollouts_per_step, epochs_per_step, prompt_iter,
                   prompt_batch, pos, k, replay_buffer, step_epoch, batches,
                   exp, loss, params, opt_state, io, saves, group>>

\* clip_grad_norm_ (in train.py with .full_tensor(), a gather), the kl and
\* grad_norm log, optimizer.step()
ClipAndStep(w) ==
    /\ w \in Ranks
    /\ pc[w] = "clip"
    /\ CanEnter(w)
    /\ coll' = Entered(w, "grad_norm")
    /\ io' = Logged(w, {"print", "wandb.log"})
    /\ params' = [params EXCEPT ![w] = @ + 1]
    /\ opt_state' = [opt_state EXCEPT ![w] = @ + 1]
    /\ AfterBatch(w)
    /\ n_optimizer_steps' = [n_optimizer_steps EXCEPT ![w] = @ + 1]
    /\ UNCHANGED <<rewardVars, maskVars, advVars, ref_params, n_prompts, drawn,
                   n_skipped, experience, diag, script, world,
                   checkpoint_interval, train_batch_size, rollouts_per_step,
                   epochs_per_step, prompt_iter, prompt_batch, pos, k,
                   replay_buffer, batches, exp, loss, grad, saves, group>>

\* (k + 1) % checkpoint_interval == 0 (checkpoint_path and checkpoint_interval
\* are not None)
CheckpointDue(step) == (step + 1) % checkpoint_interval = 0

\* the periodic checkpoint: in neither script is it guarded by the rank
Checkpoint(w) ==
    /\ w \in Ranks
    /\ pc[w] = "ckpt"
    /\ IF CheckpointDue(k[w])
       THEN /\ io' = [io EXCEPT ![w] = @ \cup {"print", "save_checkpoint"}]
            /\ saves' = [saves EXCEPT ![w] = Append(@, [file |-> k[w], final |-> FALSE])]
       ELSE UNCHANGED <<io, saves>>
    /\ pc' = [pc EXCEPT ![w] = "loop"]
    /\ UNCHANGED <<rewardVars, maskVars, advVars, ref_params, n_prompts, drawn,
                   n_optimizer_steps, n_skipped, experience, diag, script,
                   world, checkpoint_interval, train_batch_size,
                   rollouts_per_step, epochs_per_step, prompt_iter,
                   prompt_batch, pos, k, replay_buffer, step_epoch, batches,
                   exp, loss, params, opt_state, grad, coll, group>>

\* train.py after the loop: if checkpoint_path is not None and
\* dist.get_rank() == 0: save_checkpoint(..., f"step_{k}.pt").  With no step
\* run, k is unbound and the f-string raises NameError.
FinalSave(w) ==
    /\ w \in Ranks
    /\ pc[w] = "final"
    /\ IF w = 0
       THEN IF k[w] = -1
            THEN /\ pc' = [pc EXCEPT ![w] = "crashed"]
                 /\ UNCHANGED <<io, saves>>
            ELSE /\ io' = [io EXCEPT ![w] = @ \cup {"save_checkpoint"}]
                 /\ saves' = [saves EXCEPT ![w] = Append(@, [file |-> k[w], final |-> TRUE])]
                 /\ pc' = [pc EXCEPT ![w] = "destroy"]
       ELSE /\ pc' = [pc EXCEPT ![w] = "destroy"]
            /\ UNCHANGED <<io, saves>>
    /\ UNCHANGED <<rewardVars, maskVars, advVars, ref_params, n_prompts, drawn,
                   n_optimizer_steps, n_skipped, experience, diag, script,
                   world, checkpoint_interval, train_batch_size,
                   rollouts_per_step, epochs_per_step, prompt_iter,
                   prompt_batch, pos, k, replay_buffer, step_epoch, batches,
                   exp, loss, params, opt_state, grad, coll, group>>

\* dist.destroy_process_group(), the last statement of train.py's main()
Destroy(w) ==
    /\ w \in Ranks
    /\ pc[w] = "destroy"
    /\ group' = [group EXCEPT ![w] = "destroyed"]
    /\ pc' = [pc EXCEPT ![w] = "done"]
    /\ UNCHANGED <<rewardVars, maskVars, advVars, ref_params, n_prompts, drawn,
                   n_optimizer_steps, n_skipped, experience, diag, script,
                   world, checkpoint_interval, train_batch_size,
                   rollouts_per_step, epochs_per_step, prompt_iter,
                   prompt_batch, pos, k, replay_buffer, step_epoch, batches,
                   exp, loss, params, opt_state, grad, coll, io, saves>>

\* an exception raised by a call of the step loop of train.py (the generation
\* backend while collecting, a collective while training, the checkpoint I/O):
\* main() has no try/finally, the exception leaves main() and the process ends
Fatal(w) ==
    /\ w \in Ranks
    /\ script = "train"
    /\ pc[w] \in {"collect", "batch", "ckpt"}
    /\ pc' = [pc EXCEPT ![w] = "crashed"]
    /\ UNCHANGED <<rewardVars, maskVars, advVars, ref_params, n_prompts, drawn,
                   n_optimizer_steps, n_skipped, experience, diag, script,
                   world, checkpoint_interval, train_batch_size,
                   rollouts_per_step, epochs_per_step, prompt_iter,
                   prompt_batch, pos, k, replay_buffer, step_epoch, batches,
                   exp, loss, params, opt_state, grad, coll, io, saves, group>>

LoopNext ==
    \E w \in 0 .. MaxWorkers - 1 :
        \/ NextStep(w)
        \/ EndOfData(w)
        \/ Rollout(w)
        \/ EpochStart(w)
        \/ Forward(w)
        \/ SkipBatch(w)
        \/ Backward(w)
        \/ ClipAndStep(w)
        \/ Checkpoint(w)
        \/ FinalSave(w)
        \/ Destroy(w)
        \/ Fatal(w)

Next == LoopNext

Spec == Init /\ [][Next]_vars

\* ------------------------------------------------- rollout(): the reward
\* A completion is a sequence of pieces: the two tags, each a piece, and
\* single characters that occur in neither tag.
OpenTag == "<answer>"

CloseTag == "</answer>"

Chars == {"4", "2", "\n"}

Pieces == {OpenTag, CloseTag} \cup Chars

Digits == {"4", "2"}

SeqsUpTo(S, n) == UNION { [1 .. m -> S] : m \in 0 .. n }

\* a greedy (.*) in place of the lazy one: the last closing tag at or after j
GreedyClose(c, j) ==
    IF \E m \in j .. Len(c) : c[m] = CloseTag
    THEN CHOOSE m \in j .. Len(c) :
             c[m] = CloseTag /\ \A m2 \in j .. Len(c) : c[m2] = CloseTag => m2 <= m
    ELSE 0

\* the lazy (.*?) followed by </answer>, tried from position j on: the first
\* closing tag at or after j (0: none); with re.DOTALL "." matches "\n" too
RECURSIVE LazyClose(_, _)
LazyClose(c, j) ==
    IF j > Len(c) THEN 0
    ELSE IF c[j] = CloseTag THEN j
    ELSE LazyClose(c, j + 1)

\* re.search(r"<answer>(.*?)</answer>", completion, flags=re.DOTALL): the
\* start positions are tried from the left, i on; <<0, 0>>: no match
RECURSIVE Search(_, _)
Search(c, i) ==
    IF i > Len(c) THEN <<0, 0>>
    ELSE IF c[i] = OpenTag /\ LazyClose(c, i + 1) # 0
         THEN <<i, LazyClose(c, i + 1)>>
         ELSE Search(c, i + 1)

\* oracle_answer in answer
Contains(answer, oracle) ==
    \E i \in 0 .. Len(answer) - Len(oracle) :
        SubSeq(answer, i + 1, i + Len(oracle)) = oracle

\* the reward of one completion, in hundredths (0.01 is 1, 1.0 is 100)
Reward(c, oracle) ==
    LET answer_match == Search(c, 1)
        answer == SubSeq(c, answer_match[1] + 1, answer_match[2] - 1)
    IN  IF answer_match = <<0, 0>> THEN 0
        ELSE IF answer = oracle THEN 100
        ELSE IF Contains(answer, oracle) THEN 50
        ELSE 1

RewardInit ==
    /\ completion \in SeqsUpTo(Pieces, MaxCompletionLen)
    /\ oracle_answer \in SeqsUpTo(Digits, MaxOracleLen)
    /\ reward = -1

Grade ==
    /\ reward = -1
    /\ reward' = Reward(completion, oracle_answer)
    /\ UNCHANGED <<loopVars, maskVars, advVars, completion, oracle_answer>>

InitReward == LoopIdle /\ RewardInit /\ MaskIdle /\ AdvIdle

SpecReward == InitReward /\ [][Grade]_vars

\* --------------------------------------------------- rollout(): the masks
\* tokenizer.eos_token_id, which is also the pad_token_id
pad_token_id == "eos"

Tokens == {pad_token_id, "a", "b"}

\* action_mask without action_mask[sequence_ids == pad_token_id] = False
ActionMaskPadKept(ids, n_prompt) ==
    LET full == [i \in 1 .. Len(ids) |-> i > n_prompt]
    IN  [j \in 1 .. Len(ids) - 1 |-> full[j + 1]]

\* action_mask of one row: zeros, True from input_ids.shape[1] on, False
\* where the token is pad_token_id, the first column dropped
ActionMask(ids, n_prompt) ==
    LET full == [i \in 1 .. Len(ids) |-> i > n_prompt /\ ids[i] # pad_token_id]
    IN  [j \in 1 .. Len(ids) - 1 |-> full[j + 1]]

\* attention_mask = sequence_ids != pad_token_id
AttentionMask(ids) == [i \in 1 .. Len(ids) |-> ids[i] # pad_token_id]

MaskInit ==
    /\ sequence_ids \in SeqsUpTo(Tokens, MaxSeqLen) \ {<< >>}
    /\ prompt_len \in 1 .. Len(sequence_ids)
    /\ action_mask = << >>
    /\ attention_mask = << >>

BuildMasks ==
    /\ attention_mask = << >>
    /\ action_mask' = ActionMask(sequence_ids, prompt_len)
    /\ attention_mask' = AttentionMask(sequence_ids)
    /\ UNCHANGED <<loopVars, rewardVars, advVars, sequence_ids, prompt_len>>

InitMask == LoopIdle /\ RewardIdle /\ MaskInit /\ AdvIdle

SpecMask == InitMask /\ [][BuildMasks]_vars

\* ------------------------------------------------------ group_advantages()
\* the values a return takes, in hundredths
ReturnValues == {0, 1, 50, 100}

RECURSIVE Sum(_)
Sum(s) == IF s = << >> THEN 0 ELSE Head(s) + Sum(Tail(s))

ISqrt(x) == CHOOSE r \in 0 .. x : r * r <= x /\ (r + 1) * (r + 1) > x

Abs(x) == IF x < 0 THEN -x ELSE x

\* a float: NaN, or a number kept in thousandths
NaN == [nan |-> TRUE, milli |-> 0]

Float(m) == [nan |-> FALSE, milli |-> m]

\* (returns - returns.mean()) / (returns.std() + eps).  torch.Tensor.std() is
\* the unbiased estimator, sqrt(sum((x - mean)^2) / (n - 1)): for n = 1 it is
\* 0 / 0, NaN, and so is every quotient.  With d[i] = n * (x[i] - mean), the
\* quotient is d[i] * sqrt(n - 1) / sqrt(sum(d^2)) when some d is not 0 (eps,
\* 1e-8, is below the resolution kept here) and 0 / eps = 0 when all are.
\* The quotient is rounded towards 0.
group_advantages(r) ==
    LET n == Len(r)
        d == [i \in 1 .. n |-> n * r[i] - Sum(r)]
        ss == Sum([i \in 1 .. n |-> d[i] * d[i]])
    IN  IF n = 1 THEN [i \in 1 .. n |-> NaN]
        ELSE IF ss = 0 THEN [i \in 1 .. n |-> Float(0)]
        ELSE [i \in 1 .. n |->
                 LET q == (10 * Abs(d[i]) * ISqrt(10000 * (n - 1))) \div ISqrt(ss)
                 IN  Float(IF d[i] < 0 THEN -q ELSE q)]

AdvInit ==
    /\ returns \in SeqsUpTo(ReturnValues, MaxGroupSize) \ {<< >>}
    /\ advantages = << >>

Normalize ==
    /\ advantages = << >>
    /\ advantages' = group_advantages(returns)
    /\ UNCHANGED <<loopVars, rewardVars, maskVars, returns>>

InitAdv == LoopIdle /\ RewardIdle /\ MaskIdle /\ AdvInit

SpecAdv == InitAdv /\ [][Normalize]_vars

\* ------------------------------------------------------------------ claims
TrainingPcs == {"epoch", "batch", "loss", "clip"}

Phase(p) ==
    CASE p = "loop" -> "HEAD"
      [] p = "collect" -> "COLLECTING"
      [] p \in TrainingPcs -> "TRAINING"
      [] p = "ckpt" -> "CHECKPOINTING"
      [] p = "crashed" -> "ABORTED"
      [] OTHER -> "ENDED"

\* C1: a mini-batch whose loss is non-finite is neither backpropagated nor
\* stepped on: from the forward pass of a mini-batch to the end of a skipped
\* one the parameters and the optimizer state keep their values, no gradient
\* is computed, and the process goes on to the next mini-batch (or, after the
\* last one, to the next epoch or the checkpoint decision).
C1_NonFiniteLossSkipsUpdate ==
    [][\A w \in Ranks :
          /\ pc[w] = "batch" =>
                params'[w] = params[w] /\ opt_state'[w] = opt_state[w]
          /\ (pc[w] = "loss" /\ loss[w] = "nonfinite") =>
                /\ params'[w] = params[w]
                /\ opt_state'[w] = opt_state[w]
                /\ grad'[w] = "none"
                /\ pc'[w] # pc[w] =>
                      pc'[w] = IF batches[w] # << >> THEN "batch"
                               ELSE IF step_epoch[w] + 1 < epochs_per_step THEN "epoch"
                               ELSE "ckpt"]_vars

\* C1 witness: a process of train.py has skipped a non-finite mini-batch and
\* stands at the next mini-batch of the same pass
C1_Witness ==
    \E w \in Ranks :
        pc[w] = "batch" /\ loss[w] = "nonfinite" /\ grad[w] = "none" /\ script = "train"

\* C2 (as claimed): whatever the outcomes of the finite-loss checks, the
\* processes of train.py enter the same collectives in the same order: two
\* processes that have entered as many collectives entered the same one last.
C2_SameCollectiveOrder ==
    \A v, w \in Ranks : coll[v].n = coll[w].n => coll[v].op = coll[w].op

\* C3 (as claimed): in train.py a process of rank other than 0 never calls
\* print, wandb.log or save_checkpoint.
C3_OnlyRankZeroDoesIO ==
    \A w \in Ranks : (script = "train" /\ w # 0) => io[w] = {}

\* C4 (as claimed): a run that ended at end-of-data (in train.py, its rank 0)
\* has saved after every step whose 1-based count is a multiple of
\* checkpoint_interval, to the file of that step's index, and once more at
\* the end.
C4_SavesEveryIntervalAndAtEnd ==
    \A w \in Ranks :
        (pc[w] = "done" /\ IsLogger(w)) =>
            /\ \A step \in 0 .. k[w] :
                  CheckpointDue(step) =>
                      \E i \in DOMAIN saves[w] :
                          saves[w][i].file = step /\ ~saves[w][i].final
            /\ \E i \in DOMAIN saves[w] : saves[w][i].final

\* C5: replay_buffer is empty when the rollouts of a step begin; while the
\* step collects it holds the Experiences of the tasks rolled out so far, and
\* throughout the step's training exactly rollouts_per_step of them, one per
\* task of the step's prompt batch, in the order of the batch; every
\* mini-batch of the step holds Experiences of this step only.
C5_BufferHoldsCurrentStepOnly ==
    \A w \in Ranks :
        /\ pc[w] \in {"collect"} \cup TrainingPcs =>
              /\ Len(replay_buffer[w]) =
                    IF pc[w] = "collect" THEN pos[w] - 1 ELSE rollouts_per_step
              /\ \A i \in DOMAIN replay_buffer[w] :
                    /\ replay_buffer[w][i].step = k[w]
                    /\ replay_buffer[w][i].task = prompt_batch[w][i]
        /\ pc[w] \in {"batch", "loss", "clip"} =>
              \A b \in DOMAIN batches[w] :
                  \A i \in DOMAIN batches[w][b] : batches[w][b][i].step = k[w]
        /\ pc[w] \in {"loss", "clip"} =>
              \A i \in DOMAIN exp[w] : exp[w][i].step = k[w]

\* C5 witness: a process trains on a mini-batch of its second or a later step
C5_Witness ==
    \E w \in Ranks : pc[w] = "loss" /\ k[w] >= 1 /\ exp[w] # << >>

\* the <answer>...</answer> blocks of a completion, as pairs of tag positions
Blocks(c) ==
    { b \in (1 .. Len(c)) \X (1 .. Len(c)) :
        b[1] < b[2] /\ c[b[1]] = OpenTag /\ c[b[2]] = CloseTag }

\* the leftmost block, and of those the shortest
FirstBlock(c) ==
    CHOOSE b \in Blocks(c) :
        \A b2 \in Blocks(c) : b[1] < b2[1] \/ (b[1] = b2[1] /\ b[2] <= b2[2])

\* C6: the reward is decided by the first (leftmost, shortest) block: none
\* gives 0, content equal to the oracle 1.0, oracle a substring of the content
\* 0.5, anything else 0.01; and what follows the first block never changes it.
C6_RewardOfFirstBlock ==
    reward # -1 =>
        /\ reward \in {0, 1, 50, 100}
        /\ Blocks(completion) = {} => reward = 0
        /\ Blocks(completion) # {} =>
              LET b == FirstBlock(completion)
                  content == SubSeq(completion, b[1] + 1, b[2] - 1)
              IN  /\ reward = IF content = oracle_answer THEN 100
                              ELSE IF Contains(content, oracle_answer) THEN 50
                              ELSE 1
                  /\ \A m \in b[2] .. Len(completion) :
                        Reward(SubSeq(completion, 1, m), oracle_answer) = reward

\* C6 witness: a graded completion with a second block that alone would have
\* scored 0.01, after a first block that scores 1.0
C6_Witness ==
    /\ reward = 100
    /\ completion = <<OpenTag, "4", CloseTag, OpenTag, CloseTag>>
    /\ oracle_answer = <<"4">>

\* C7: action_mask[j] true implies attention_mask[j + 1] true (action_mask has
\* lost the first column), for every row
C7_ActionMaskWithinAttentionMask ==
    attention_mask # << >> =>
        /\ Len(action_mask) = Len(sequence_ids) - 1
        /\ Len(attention_mask) = Len(sequence_ids)
        /\ \A j \in DOMAIN action_mask : action_mask[j] => attention_mask[j + 1]

\* C7 witness: the masks of a row with a pad/eos token among its generated
\* tokens and a generated token after it
C7_Witness ==
    /\ attention_mask # << >>
    /\ \E i, j \in DOMAIN sequence_ids :
          /\ prompt_len < i /\ i < j
          /\ sequence_ids[i] = pad_token_id
          /\ action_mask[j - 1]

\* C8 (as claimed): for a constant return vector of any group size, one
\* rollout included, group_advantages is the zero vector, with no NaN in it
C8_ConstantReturnsGiveZero ==
    (advantages # << >> /\ \A i \in DOMAIN returns : returns[i] = returns[1]) =>
        \A i \in DOMAIN advantages : advantages[i] = Float(0)

\* C9 (as claimed): a process of train.py that has stopped, at end-of-data or
\* on an unhandled error, has destroyed its process group
C9_StoppedProcessDestroyedGroup ==
    \A w \in Ranks :
        (script = "train" /\ pc[w] \in {"done", "crashed"}) => group[w] = "destroyed"

\* C10: in every process the phases of a step follow one another in the order
\* COLLECTING, TRAINING, CHECKPOINTING: training begins only when every task
\* of the prompt batch has its Experience in the buffer, nothing is appended
\* to the buffer while the step trains or decides on its checkpoint, the
\* decision is taken only after the last mini-batch of the last epoch, the
\* next step begins only after the decision, and the loop is left for the end
\* of the run only from its head, after a decision or before the first step,
\* when prompt_loader is exhausted.  (An abort on an unhandled error is not an
\* end of this kind.)
C10_PhasesInOrder ==
    [][\A w \in Ranks :
          LET a == Phase(pc[w])
              b == Phase(pc'[w])
          IN  /\ a \in {"TRAINING", "CHECKPOINTING"} =>
                    replay_buffer'[w] = replay_buffer[w]
              /\ (a # b /\ b # "ABORTED") =>
                    \/ /\ a = "HEAD" /\ b = "COLLECTING"
                       /\ k'[w] = k[w] + 1
                    \/ /\ a = "COLLECTING" /\ b = "TRAINING"
                       /\ Len(replay_buffer'[w]) = rollouts_per_step
                       /\ \A i \in 1 .. rollouts_per_step :
                             replay_buffer'[w][i].task = prompt_batch[w][i]
                    \/ /\ a = "TRAINING" /\ b = "CHECKPOINTING"
                       /\ batches'[w] = << >>
                       /\ step_epoch'[w] = epochs_per_step
                    \/ /\ a = "CHECKPOINTING" /\ b = "HEAD"
                    \/ /\ a = "HEAD" /\ b = "ENDED"
                       /\ prompt_iter[w] = << >>]_vars

\* C10 witness: a process collects the rollouts of its second step
C10_Witness ==
    \E w \in Ranks : pc[w] = "collect" /\ k[w] = 1 /\ saves[w] # << >>

\* C11 (as claimed): the diagnostic printed for a skipped mini-batch reports
\* the loss of that mini-batch and the advantages of that same mini-batch
\* (exp.advantages), not those of another Experience
C11_DiagnosticReportsOffendingValues ==
    \A w \in Ranks :
        diag[w] # << >> =>
            /\ diag[w][1].loss_of = exp[w]
            /\ diag[w][1].advantages = StackedAdvantages(exp[w])

\* C12: the parameters of the policy and the state of the optimizer change
\* only in the optimizer step of a mini-batch whose loss is finite and has
\* been backpropagated; they keep their values throughout the collection of
\* a step, so the Experiences in the buffer were all computed under the same
\* parameters, those the policy still has while the step collects; and the
\* parameters of the reference model never change.
C12_OnlyOptimizerStepChangesPolicy ==
    [][\A w \in Ranks :
          /\ (params'[w] # params[w] \/ opt_state'[w] # opt_state[w]) =>
                /\ pc[w] = "clip"
                /\ loss[w] = "finite"
                /\ grad[w] = "computed"
          /\ Phase(pc[w]) = "COLLECTING" =>
                /\ params'[w] = params[w]
                /\ opt_state'[w] = opt_state[w]
                /\ \A i \in DOMAIN replay_buffer'[w] :
                      replay_buffer'[w][i].policy = params[w]
          /\ ref_params'[w] = ref_params[w]]_vars

\* C12 witness: a process whose policy has been updated collects the second
\* or a later rollout of a step
C12_Witness ==
    \E w \in Ranks :
        pc[w] = "collect" /\ params[w] >= 1 /\ Len(replay_buffer[w]) >= 1

\* C13: the mini-batches of a pass over experience_sampler are
\* floor(rollouts_per_step / train_batch_size) in number, each holds exactly
\* train_batch_size Experiences of the buffer, and no Experience of the buffer
\* is in more than one place of them (what does not fill a mini-batch is
\* dropped); every mini-batch trained on has train_batch_size Experiences; a
\* step makes at most epochs_per_step * floor(rollouts_per_step /
\* train_batch_size) optimizer steps, and when its training is over it has
\* made exactly that many if and only if it skipped no mini-batch.
C13_MiniBatchesPartitionAndCount ==
    [][\A w \in Ranks :
          LET perEpoch == rollouts_per_step \div train_batch_size
              mbs == batches'[w]
              places(e) == { pl \in (DOMAIN mbs) \X (1 .. train_batch_size) :
                               mbs[pl[1]][pl[2]] = e }
          IN  /\ (pc[w] = "epoch" /\ pc'[w] = "batch") =>
                    /\ Len(mbs) = perEpoch
                    /\ \A b \in DOMAIN mbs :
                          /\ Len(mbs[b]) = train_batch_size
                          /\ \A j \in DOMAIN mbs[b] :
                                \E i \in DOMAIN replay_buffer[w] :
                                    replay_buffer[w][i] = mbs[b][j]
                    /\ \A i \in DOMAIN replay_buffer[w] :
                          Cardinality(places(replay_buffer[w][i])) <= 1
              /\ (pc[w] = "epoch" /\ step_epoch'[w] # step_epoch[w]) => perEpoch = 0
              /\ (pc[w] = "batch" /\ pc'[w] = "loss") =>
                    Len(exp'[w]) = train_batch_size
              /\ n_optimizer_steps'[w] <= epochs_per_step * perEpoch
              /\ (pc[w] # "ckpt" /\ pc'[w] = "ckpt") =>
                    /\ n_optimizer_steps'[w] + n_skipped'[w] = epochs_per_step * perEpoch
                    /\ (n_optimizer_steps'[w] = epochs_per_step * perEpoch)
                          <=> (n_skipped'[w] = 0)]_vars

\* C13 witness: a step of two mini-batches per pass has ended its training
\* with a mini-batch skipped and a mini-batch stepped on
C13_Witness ==
    \E w \in Ranks :
        /\ pc[w] = "ckpt"
        /\ rollouts_per_step \div train_batch_size = 2
        /\ n_skipped[w] >= 1
        /\ n_optimizer_steps[w] >= 1

\* a process that an exception raised inside the step loop has ended (the
\* NameError of the final save leaves k unbound, so k = -1 there)
FatalError == \E w \in Ranks : pc[w] = "crashed" /\ k[w] >= 0

\* C14 (as claimed): a run with no fatal error executes exactly
\* floor(n_prompts / rollouts_per_step) steps and then terminates: the steps
\* begun so far have drawn rollouts_per_step prompts each, no prompt twice, a
\* process that has left the loop has executed exactly that many steps (so
\* the n_prompts mod rollouts_per_step leftover prompts are never drawn), and
\* the run does not come to rest before every process has ended.
C14_ExactlyFloorStepsThenTerminates ==
    ~FatalError =>
        /\ \A w \in Ranks :
              /\ drawn[w] \subseteq 1 .. n_prompts
              /\ Cardinality(drawn[w]) = rollouts_per_step * (k[w] + 1)
              /\ pc[w] \in {"final", "destroy", "done", "crashed"} =>
                    k[w] + 1 = n_prompts \div rollouts_per_step
        /\ ~(ENABLED Next) => \A w \in Ranks : pc[w] \in {"done", "crashed"}

====
